---- MODULE Spec2Model ----
(***************************************************************************)
(* NYC property unit scraper (Units_Git.py): the identifier normaliser     *)
(* clean_bbl, the retrying lookup get_unit_count and the row loop that     *)
(* drives them over an uploaded table.                                     *)
(*                                                                         *)
(* Python str values are modelled as sequences of one-character strings.   *)
(* A cell / JSON value is a record [t, s, n]:                              *)
(*   t = "str"   : the text s                                              *)
(*   t = "int"   : the integer n                                           *)
(*   t = "float" : the non-negative float n.s (s = its fractional digits)  *)
(*   t = "nan"   : a blank cell (pandas NaN)                               *)
(*   t = "none"  : Python None / JSON null                                 *)
(***************************************************************************)
EXTENDS Integers, Sequences, FiniteSets, TLC

\* ---- bounds of the model ------------------------------------------------
MaxRows == 2     \* rows of an uploaded table
MaxLen == 3      \* length of the strings clean_bbl is explored on

\* ---- values -------------------------------------------------------------
Digits == {"0", "1", "2", "3", "4", "5", "6", "7", "8", "9"}

DigitChar == <<"0", "1", "2", "3", "4", "5", "6", "7", "8", "9">>

PyStr(s) == [t |-> "str", s |-> s, n |-> 0]
PyInt(k) == [t |-> "int", s |-> <<>>, n |-> k]
PyFloat(k, frac) == [t |-> "float", s |-> frac, n |-> k]
PyNaN == [t |-> "nan", s |-> <<>>, n |-> 0]
PyNone == [t |-> "none", s |-> <<>>, n |-> 0]

\* decimal digits of a natural number
RECURSIVE NatStr(_)
NatStr(k) == IF k < 10 THEN <<DigitChar[k + 1]>>
             ELSE NatStr(k \div 10) \o <<DigitChar[(k % 10) + 1]>>

\* str(value), line 37
str(v) ==
    CASE v.t = "str" -> v.s
      [] v.t = "int" -> IF v.n < 0 THEN <<"-">> \o NatStr(0 - v.n) ELSE NatStr(v.n)
      [] v.t = "float" -> NatStr(v.n) \o <<".">> \o v.s
      [] v.t = "nan" -> <<"n", "a", "n">>
      [] OTHER -> <<"N", "o", "n", "e">>

\* s.split(sep)[0]: s up to its first sep, all of s when it has none
split0(s, sep) ==
    IF \A k \in 1..Len(s) : s[k] # sep THEN s
    ELSE LET first == CHOOSE k \in 1..Len(s) :
                         s[k] = sep /\ \A j \in 1..(k - 1) : s[j] # sep
         IN  SubSeq(s, 1, first - 1)

\* str.isdigit on one character
isdigit(c) == c \in Digits

\* "".join(filter(str.isdigit, s)): the characters of s that are digits
join_filter_isdigit(s) == SelectSeq(s, isdigit)

\* variant: the split at "." is forgotten
clean_bbl_m(value) == join_filter_isdigit(str(value))

\* clean_bbl(value), lines 33-39
clean_bbl(value) ==
    LET s == split0(str(value), ".")
        clean == join_filter_isdigit(s)
    IN  clean

\* ---- sentinel texts ------------------------------------------------------
InvalidFormat == PyStr(<<"I","n","v","a","l","i","d"," ","F","o","r","m","a","t">>)
InvalidBBL == PyStr(<<"I","n","v","a","l","i","d"," ","B","B","L">>)
ConnectionError ==
    PyStr(<<"C","o","n","n","e","c","t","i","o","n"," ","E","r","r","o","r">>)

\* ---- the remote: what one session.get can come back with -----------------
\* kind "fault": the transport raised (timeout, refused connection, ...).
\* kind "response": a status and a body; json says what response.json() makes
\* of the body ("dict": a JSON object, "list": valid JSON that is no object,
\* "invalid": not JSON); overview is the object's parcelOverview entry
\* ("absent", "dict" or "null"); total / res the overview's two counts.
Resp(status, json, overview, total, res) ==
    [kind |-> "response", status |-> status, json |-> json,
     overview |-> overview, total |-> total, res |-> res]

Fault == [kind |-> "fault", status |-> 0, json |-> "invalid",
          overview |-> "absent", total |-> PyNone, res |-> PyNone]

ErrorPage(status) == Resp(status, "invalid", "absent", PyNone, PyNone)

UsableBodies ==
    { Resp(200, "dict", "absent", PyNone, PyNone),
      Resp(200, "dict", "dict", PyInt(0), PyInt(3)),
      Resp(200, "dict", "dict", PyNone, PyInt(3)),
      Resp(200, "dict", "dict", PyNone, PyNone) }

UnusableBodies ==
    { Resp(200, "invalid", "absent", PyNone, PyNone),
      Resp(200, "dict", "null", PyNone, PyNone) }

Responses ==
    UsableBodies \cup UnusableBodies
      \cup {ErrorPage(404), ErrorPage(403), ErrorPage(500), Fault}

\* ---- get_unit_count, lines 41-74 -----------------------------------------
MaxAttempts == 3

\* variant: one iteration too many
MoreAttempts_m(n) == n < MaxAttempts + 1

\* for attempt in range(3), line 48
MoreAttempts(n) == n < MaxAttempts

\* variant: only a failed request raises; a 200 body is taken as it comes
Raised_m(r) == IF r.kind = "fault" THEN "RequestException" ELSE "none"

\* what the try body raises on r, lines 51-57 ("none": nothing)
Raised(r) ==
    IF r.kind = "fault" THEN "RequestException"
    ELSE IF r.status # 200 THEN "none"
    ELSE IF r.json = "invalid" THEN "JSONDecodeError"
    ELSE IF r.json # "dict" THEN "AttributeError"
    ELSE IF r.overview = "null" THEN "AttributeError"
    ELSE "none"

\* except Exception, line 69
CaughtByLookup(exc) ==
    exc \in {"RequestException", "JSONDecodeError", "AttributeError"}

\* variant: total is tested for truth, not for None
UnitValue_m(r) ==
    LET total == IF r.overview = "dict" THEN r.total ELSE PyNone
        res == IF r.overview = "dict" THEN r.res ELSE PyNone
        val == IF total # PyNone /\ total # PyInt(0) THEN total ELSE res
    IN  IF val # PyNone THEN val ELSE PyInt(0)

\* the value returned on a 200 response, lines 54-59
UnitValue(r) ==
    LET total == IF r.overview = "dict" THEN r.total ELSE PyNone
        res == IF r.overview = "dict" THEN r.res ELSE PyNone
        val == IF total # PyNone THEN total ELSE res
    IN  IF val # PyNone THEN val ELSE PyInt(0)

\* the if / elif chain on response.status_code, lines 53-67: "units" and
\* "invalid_bbl" return, "blocked" sleeps 2 s and continues, and a status
\* no branch names leaves the chain and goes on to the next iteration.
OnStatus(status) ==
    CASE status = 200 -> "units"
      [] status = 404 -> "invalid_bbl"
      [] status = 403 -> "blocked"
      [] OTHER -> "next"

BlockedDelay == 2
FaultDelay == 1

\* ---- the page: upload, column choice, the scraping loop ------------------
VARIABLES pc, df, cols, target_col, total_rows, index, bbl, units, results,
          progress, status_text, resps, delays, requested, warmups, warm, error,
          cv, c1, c2, cpc

vars == <<pc, df, cols, target_col, total_rows, index, bbl, units, results,
          progress, status_text, resps, delays, requested, warmups, warm, error,
          cv, c1, c2, cpc>>

pipe == <<pc, df, cols, target_col, total_rows, index, bbl, units, results,
          progress, status_text, resps, delays, requested, warmups, warm, error>>

cleanv == <<cv, c1, c2, cpc>>

\* column layouts of the uploaded tables
Layouts == { <<"Address", "Parcel_Number">>, <<"Clean_BBL", "Total_Units">> }

\* cell values: "1-00199-0025", 123456789.5, "12345678.9", a blank, 7
CellA == PyStr(<<"1","-","0","0","1","9","9","-","0","0","2","5">>)
CellB == PyFloat(123456789, <<"5">>)
CellC == PyStr(<<"1","2","3","4","5","6","7","8",".","9">>)
CellD == PyNaN
CellE == PyInt(7)

\* the rows an uploaded table is made of, as <<first cell, second cell>>
SampleCells == { <<CellA, CellC>>, <<CellC, CellB>>, <<CellD, CellE>> }

Row(layout, cells) == [c \in {layout[1], layout[2]} |->
                          IF c = layout[1] THEN cells[1] ELSE cells[2]]

Tables(layout) ==
    UNION { [1..n -> {Row(layout, cells) : cells \in SampleCells}] : n \in 0..MaxRows }

Range(f) == {f[i] : i \in DOMAIN f}

NoProgress == [num |-> 0, den |-> 1]
NoText == [kind |-> "empty", i |-> 0, n |-> 0, bbl |-> <<>>]

Init ==
    /\ pc = "idle"
    /\ df = <<>>
    /\ cols = <<>>
    /\ target_col = ""
    /\ total_rows = 0
    /\ index = 0
    /\ bbl = <<>>
    /\ units = PyNone
    /\ results = <<>>
    /\ progress = NoProgress
    /\ status_text = NoText
    /\ resps = <<>>
    /\ delays = <<>>
    /\ requested = {}
    /\ warmups = 0
    /\ warm = "none"
    /\ error = "none"
    /\ cv = PyNone
    /\ c1 = <<>>
    /\ c2 = <<>>
    /\ cpc = "off"

\* default_idx, line 89
DefaultColumn(layout) ==
    IF "Parcel_Number" \in Range(layout) THEN "Parcel_Number" ELSE layout[1]

\* lines 82-90, the file is read and the column select box shows its default
Upload ==
    /\ pc = "idle"
    /\ \E layout \in Layouts : \E t \in Tables(layout) :
          /\ df' = t
          /\ cols' = layout
          /\ target_col' = DefaultColumn(layout)
    /\ pc' = "ready"
    /\ UNCHANGED <<total_rows, index, bbl, units, results, progress,
                   status_text, resps, delays, requested, warmups, warm, error>>
    /\ UNCHANGED cleanv

\* lines 84 and 142-143, pd.read_excel raises: the error is shown, nothing runs
UploadFails ==
    /\ pc = "idle"
    /\ error' = "Error"
    /\ pc' = "halted"
    /\ UNCHANGED <<df, cols, target_col, total_rows, index, bbl, units, results,
                   progress, status_text, resps, delays, requested, warmups, warm>>
    /\ UNCHANGED cleanv

\* line 90, the user picks another column
SelectColumn ==
    /\ pc = "ready"
    /\ \E c \in Range(cols) : c # target_col /\ target_col' = c
    /\ UNCHANGED <<pc, df, cols, total_rows, index, bbl, units, results, progress,
                   status_text, resps, delays, requested, warmups, warm, error>>
    /\ UNCHANGED cleanv

\* lines 92-96, the button is pressed
StartScraping ==
    /\ pc = "ready"
    /\ results' = <<>>
    /\ progress' = [num |-> 0, den |-> 1]
    /\ status_text' = NoText
    /\ total_rows' = Len(df)
    /\ pc' = "warmup"
    /\ UNCHANGED <<df, cols, target_col, index, bbl, units, resps, delays,
                   requested, warmups, warm, error>>
    /\ UNCHANGED cleanv

\* variant: the warm-up's handler only catches ValueError
CaughtByWarmup_m(exc) == exc = "ValueError"

\* bare except, line 101
CaughtByWarmup(exc) == TRUE

\* lines 98-102, the warm-up request; its response is not looked at
WarmUp ==
    /\ pc = "warmup"
    /\ warmups' = warmups + 1
    /\ \E r \in {ErrorPage(200), ErrorPage(403), Fault} :
          /\ warm' = r.kind
          /\ IF r.kind = "fault" /\ ~CaughtByWarmup("RequestException")
             THEN /\ error' = "Error"
                  /\ pc' = "halted"
                  /\ index' = index
             ELSE /\ error' = error
                  /\ pc' = "row"
                  /\ index' = 0
    /\ UNCHANGED <<df, cols, target_col, total_rows, bbl, units, results,
                   progress, status_text, resps, delays, requested>>
    /\ UNCHANGED cleanv

\* variant: the gate is off by one
TooShort_m(b) == Len(b) < 8

\* len(bbl) < 9, line 113
TooShort(b) == Len(b) < 9

\* variant: the row's own index is left out of the fraction
ProgressOf_m(i, n) == [num |-> i, den |-> n]

\* progress = (index + 1) / total_rows, line 105, as numerator and denominator
ProgressOf(i, n) == [num |-> i + 1, den |-> n]

\* lines 104-116 up to the call: progress, the key, the status line, the gate
RowBegin ==
    /\ pc = "row"
    /\ index < total_rows
    /\ progress' = ProgressOf(index, total_rows)
    /\ bbl' = clean_bbl(df[index + 1][target_col])
    /\ status_text' = [kind |-> "processing", i |-> index + 1,
                       n |-> total_rows, bbl |-> bbl']
    /\ IF TooShort(bbl')
       THEN /\ units' = InvalidFormat
            /\ pc' = "returned"
       ELSE /\ units' = units
            /\ pc' = "lookup"
    /\ resps' = <<>>
    /\ delays' = <<>>
    /\ UNCHANGED <<df, cols, target_col, total_rows, index, results, requested,
                   warmups, warm, error>>
    /\ UNCHANGED cleanv

\* lines 48-72, one iteration of the retry loop on the response r
Attempt ==
    /\ pc = "lookup"
    /\ MoreAttempts(Len(resps))
    /\ \E r \in Responses :
          /\ resps' = Append(resps, r)
          /\ requested' = requested \cup {<<index, bbl>>}
          /\ IF Raised(r) # "none"
             THEN IF CaughtByLookup(Raised(r))
                  THEN /\ delays' = Append(delays, FaultDelay)
                       /\ UNCHANGED <<pc, units, error>>
                  ELSE /\ error' = "Error"
                       /\ pc' = "halted"
                       /\ UNCHANGED <<delays, units>>
             ELSE CASE OnStatus(r.status) = "units" ->
                         /\ units' = UnitValue(r)
                         /\ pc' = "returned"
                         /\ UNCHANGED <<delays, error>>
                    [] OnStatus(r.status) = "invalid_bbl" ->
                         /\ units' = InvalidBBL
                         /\ pc' = "returned"
                         /\ UNCHANGED <<delays, error>>
                    [] OnStatus(r.status) = "blocked" ->
                         /\ delays' = Append(delays, BlockedDelay)
                         /\ UNCHANGED <<pc, units, error>>
                    [] OTHER ->
                         /\ delays' = Append(delays, 0)
                         /\ UNCHANGED <<pc, units, error>>
    /\ UNCHANGED <<df, cols, target_col, total_rows, index, bbl, results,
                   progress, status_text, warmups, warm>>
    /\ UNCHANGED cleanv

\* line 74, the loop is exhausted
LoopExit ==
    /\ pc = "lookup"
    /\ ~MoreAttempts(Len(resps))
    /\ units' = ConnectionError
    /\ pc' = "returned"
    /\ UNCHANGED <<df, cols, target_col, total_rows, index, bbl, results, progress,
                   status_text, resps, delays, requested, warmups, warm, error>>
    /\ UNCHANGED cleanv

\* d[k] = v on a dict
DictSet(d, k, v) == [c \in DOMAIN d \cup {k} |-> IF c = k THEN v ELSE d[c]]

\* variant: the new record is put in front
Collect_m(rs, rec) == <<rec>> \o rs

\* results.append(row_data), line 121
Collect(rs, rec) == Append(rs, rec)

\* lines 118-124, the row's record is built and collected
AppendRow ==
    /\ pc = "returned"
    /\ LET row_data == DictSet(DictSet(df[index + 1], "Clean_BBL", PyStr(bbl)),
                               "Total_Units", units)
       IN  results' = Collect(results, row_data)
    /\ index' = index + 1
    /\ resps' = <<>>
    /\ delays' = <<>>
    /\ pc' = "row"
    /\ UNCHANGED <<df, cols, target_col, total_rows, bbl, units, progress,
                   status_text, requested, warmups, warm, error>>
    /\ UNCHANGED cleanv

\* lines 126-140, the loop is over
Finish ==
    /\ pc = "row"
    /\ index >= total_rows
    /\ status_text' = [kind |-> "done", i |-> 0, n |-> 0, bbl |-> <<>>]
    /\ pc' = "done"
    /\ UNCHANGED <<df, cols, target_col, total_rows, index, bbl, units, results,
                   progress, resps, delays, requested, warmups, warm, error>>
    /\ UNCHANGED cleanv

Run == WarmUp \/ RowBegin \/ Attempt \/ LoopExit \/ AppendRow \/ Finish

Next == Upload \/ UploadFails \/ SelectColumn \/ StartScraping \/ Run

Spec == Init /\ [][Next]_vars

\* the script is one sequential thread: once the button is pressed every
\* step of the run is taken (each lookup request returns or times out)
FairSpec == Init /\ [][Next]_vars /\ WF_vars(Run)

\* ---- clean_bbl on its own ------------------------------------------------
Alphabet == {"0", "7", ".", "-", " ", "a"}

Strings == UNION { [1..n -> Alphabet] : n \in 0..MaxLen }

InitClean ==
    /\ pc = "idle"
    /\ df = <<>>
    /\ cols = <<>>
    /\ target_col = ""
    /\ total_rows = 0
    /\ index = 0
    /\ bbl = <<>>
    /\ units = PyNone
    /\ results = <<>>
    /\ progress = NoProgress
    /\ status_text = NoText
    /\ resps = <<>>
    /\ delays = <<>>
    /\ requested = {}
    /\ warmups = 0
    /\ warm = "none"
    /\ error = "none"
    /\ cv \in {PyStr(s) : s \in Strings}
    /\ c1 = <<>>
    /\ c2 = <<>>
    /\ cpc = "start"

\* clean_bbl(v)
CleanOnce ==
    /\ cpc = "start"
    /\ c1' = clean_bbl(cv)
    /\ cpc' = "once"
    /\ UNCHANGED <<cv, c2>>
    /\ UNCHANGED pipe

\* clean_bbl(clean_bbl(v))
CleanTwice ==
    /\ cpc = "once"
    /\ c2' = clean_bbl(PyStr(c1))
    /\ cpc' = "twice"
    /\ UNCHANGED <<cv, c1>>
    /\ UNCHANGED pipe

NextClean == CleanOnce \/ CleanTwice

SpecClean == InitClean /\ [][NextClean]_vars

\* ---- properties ----------------------------------------------------------
RunStates == {"warmup", "row", "lookup", "returned"}

IsResponse(r, status) == r.kind = "response" /\ r.status = status

\* a 200 response whose body parses to an object whose parcelOverview entry
\* is missing or an object
Usable(r) == IsResponse(r, 200) /\ r.json = "dict" /\ r.overview \in {"absent", "dict"}

Unusable(r) == IsResponse(r, 200) /\ ~Usable(r)

TotalPresent(r) == Usable(r) /\ r.overview = "dict" /\ r.total.t = "int"
ResPresent(r) == Usable(r) /\ r.overview = "dict" /\ r.res.t = "int"

\* total if present, else residential if present, else 0
ExpectedUnits(r) ==
    IF TotalPresent(r) THEN r.total
    ELSE IF ResPresent(r) THEN r.res
    ELSE PyInt(0)

AllOf(rs, P(_)) == \A k \in 1..Len(rs) : P(rs[k])

Blocked(r) == IsResponse(r, 403)

\* C1: one call of get_unit_count issues at most 3 requests; when the remote
\* answers 403, 403 and then a 200 that carries a value, the call returns that
\* value after exactly 3 requests; when the remote answers 403 every time, the
\* call returns "Connection Error" after exactly 3 requests.
C1_BoundedRetry ==
    /\ Len(resps) <= 3
    /\ (pc = "returned" /\ resps # <<>> /\ AllOf(resps, Blocked))
          => (units = ConnectionError /\ Len(resps) = 3)
    /\ (Len(resps) \in 1..2 /\ AllOf(resps, Blocked)) => pc = "lookup"
    /\ (Len(resps) = 3 /\ Blocked(resps[1]) /\ Blocked(resps[2]) /\ Usable(resps[3]))
          => (pc = "returned" /\ units = ExpectedUnits(resps[3])
                /\ units \notin {ConnectionError, InvalidBBL, InvalidFormat})

C1_Witness ==
    /\ pc = "returned"
    /\ resps = <<ErrorPage(403), ErrorPage(403),
                 Resp(200, "dict", "dict", PyNone, PyInt(3))>>
    /\ units = PyInt(3)

\* C2: a row whose normalised key has fewer than 9 digits gets no lookup
\* request and the unit value "Invalid Format"; a lookup request is only ever
\* issued for a key of at least 9 digits.
C2_LengthGate ==
    /\ \A q \in requested : Len(q[2]) >= 9
    /\ \A i \in 1..Len(results) :
          Len(results[i]["Clean_BBL"].s) < 9
             => /\ results[i]["Total_Units"] = InvalidFormat
                /\ \A q \in requested : q[1] # i - 1
    /\ (pc \in {"lookup", "returned"} /\ Len(bbl) < 9)
          => (pc = "returned" /\ units = InvalidFormat /\ resps = <<>>
                /\ \A q \in requested : q[1] # index)

C2_Witness ==
    /\ pc = "done"
    /\ Len(results) = 2
    /\ Len(results[1]["Clean_BBL"].s) = 9
    /\ Len(results[2]["Clean_BBL"].s) = 8
    /\ results[2]["Total_Units"] = InvalidFormat
    /\ requested = {<<0, results[1]["Clean_BBL"].s>>}

\* the record rec is the output record of input row i
IsRecordOf(rec, i) ==
    /\ rec["Clean_BBL"] = PyStr(clean_bbl(df[i][target_col]))
    /\ \A c \in Range(cols) \ {"Clean_BBL", "Total_Units"} : rec[c] = df[i][c]
    /\ Range(cols) \subseteq DOMAIN rec

C3_Prefix ==
    /\ Len(results) <= Len(df)
    /\ \A i \in 1..Len(results) : IsRecordOf(results[i], i)
    /\ pc \in {"row", "lookup", "returned", "done"} => Len(results) = index
    /\ pc = "done" => Len(results) = Len(df)
    /\ pc \in RunStates => error = "none"

\* C3: whatever the remote answers, the output list is at every point of the
\* run the records of a prefix of the input rows, in input order, and the run
\* completes with exactly one record per input row.
C3_OneRecordPerRow ==
    /\ []C3_Prefix
    /\ (pc = "warmup") ~> (pc = "done" /\ Len(results) = Len(df))

C3_Witness ==
    /\ pc = "done"
    /\ Len(results) = 2
    /\ results[1]["Total_Units"] = ConnectionError
    /\ results[2]["Total_Units"] = InvalidFormat
    /\ results[1]["Clean_BBL"] # results[2]["Clean_BBL"]

ErrorText(code) == PyStr(<<"E", "r", "r", "o", "r", " ">> \o NatStr(code))

\* C4: in get_unit_count a response status other than 200, 404 and 403 ends
\* the call with "Error {code}" and is not retried; among the responses that
\* raise nothing only a 403 is followed by another attempt.
C4_OtherStatusIsError ==
    \A k \in 1..Len(resps) :
       LET r == resps[k]
       IN  /\ (r.kind = "response" /\ r.status \notin {200, 404, 403})
                => (k = Len(resps) /\ pc = "returned" /\ units = ErrorText(r.status))
           /\ (r.kind = "response" /\ ~Unusable(r) /\ (k < Len(resps) \/ pc = "lookup"))
                => r.status = 403

\* C5 as stated: every 200 response ends the call with total if present, else
\* residential if present, else 0; every 404 ends it with "Invalid BBL".
C5_Every200Returns ==
    \A k \in 1..Len(resps) :
       LET r == resps[k]
       IN  /\ IsResponse(r, 200)
                => (k = Len(resps) /\ pc = "returned" /\ units = ExpectedUnits(r))
           /\ IsResponse(r, 404)
                => (k = Len(resps) /\ pc = "returned" /\ units = InvalidBBL)

\* C5 (amended): a 200 response with a usable body ends the call, without a
\* further attempt, with total if present (0 included), else residential if
\* present, else 0; a 404 response ends it with "Invalid BBL".
C5_Usable200Returns ==
    \A k \in 1..Len(resps) :
       LET r == resps[k]
       IN  /\ Usable(r)
                => (k = Len(resps) /\ pc = "returned" /\ units = ExpectedUnits(r))
           /\ IsResponse(r, 404)
                => (k = Len(resps) /\ pc = "returned" /\ units = InvalidBBL)

C5_Witness ==
    /\ pc = "returned"
    /\ resps = <<Resp(200, "dict", "dict", PyInt(0), PyInt(3))>>
    /\ units = PyInt(0)

\* C6: every output record holds, under every column of the input table
\* whatever its name, the input row's original value.
C6_ColumnsKept ==
    \A i \in 1..Len(results) : \A c \in Range(cols) : results[i][c] = df[i][c]

WarmedUp == pc \in {"row", "lookup", "returned", "done"}

C7_Once ==
    /\ warmups <= 1
    /\ requested # {} => warmups = 1
    /\ WarmedUp => (warmups = 1 /\ warm \in {"response", "fault"})
    /\ warmups = 1 => (WarmedUp /\ error = "none")
    /\ pc = "done" => Len(results) = Len(df)

\* C7: a run issues exactly one warm-up request, before its first lookup
\* request; whether the warm-up succeeds or fails with a transport fault the
\* run goes on to process every row and reports no error.
C7_WarmUp ==
    /\ []C7_Once
    /\ (pc = "warmup") ~> (pc = "done" /\ warmups = 1 /\ error = "none"
                             /\ Len(results) = Len(df))

C7_Witness ==
    /\ pc = "done"
    /\ warm = "fault"
    /\ warmups = 1
    /\ Len(results) = 2
    /\ Cardinality(requested) = 2
    /\ error = "none"

InUnitInterval(p) == p.den > 0 /\ 0 <= p.num /\ p.num <= p.den

\* C8 as stated: the fraction i/n is reported only once row i has its output
\* record, every fraction lies in [0, 1], and 1.0 is reported only when all n
\* rows have output records.
C8_ReportedAfter ==
    /\ InUnitInterval(progress)
    /\ progress.num > 0 => Len(results) >= progress.num
    /\ (progress.num = progress.den /\ pc \in RunStates) => Len(results) = total_rows

\* C8 (amended): the fraction i/n is reported when the processing of row i
\* begins, before its lookup, when exactly i - 1 rows have output records;
\* every fraction lies in [0, 1]; 1.0 is reported when n - 1 rows have
\* output records, before the last row's lookup.
C8_ReportedBefore ==
    /\ InUnitInterval(progress)
    /\ pc \in {"lookup", "returned"}
          => (progress = [num |-> index + 1, den |-> total_rows]
                /\ Len(results) = index)
    /\ (pc \in {"row", "done"} /\ index > 0)
          => (progress = [num |-> index, den |-> total_rows] /\ Len(results) = index)
    /\ (pc \in {"warmup", "row"} /\ index = 0 /\ results = <<>>)
          => progress.num = 0
    /\ (pc \in {"lookup", "returned"} /\ progress.num = progress.den)
          => Len(results) = total_rows - 1

C8_Witness ==
    /\ pc = "lookup"
    /\ resps = <<>>
    /\ total_rows = 2
    /\ progress = [num |-> 2, den |-> 2]
    /\ Len(results) = 1

OnlyDigits(s) == \A k \in 1..Len(s) : s[k] \in Digits

\* the digits of s that stand before its first "."
RECURSIVE DigitsBeforeDot(_)
DigitsBeforeDot(s) ==
    IF s = <<>> \/ Head(s) = "." THEN <<>>
    ELSE (IF Head(s) \in Digits THEN <<Head(s)>> ELSE <<>>) \o DigitsBeforeDot(Tail(s))

IsFault(r) == r.kind = "fault"

FaultOrUnusable(r) == IsFault(r) \/ Unusable(r)

\* attempt k of the current call was handled the way a transport fault is: the
\* short sleep, no return, and "Connection Error" once it was the last one
HandledAsFault(k) ==
    /\ Len(delays) >= k
    /\ delays[k] = FaultDelay
    /\ \/ k < Len(resps)
       \/ pc = "lookup"
       \/ k = MaxAttempts /\ pc = "returned" /\ units = ConnectionError

\* C10: a 200 response whose body is no JSON, or whose parcelOverview entry is
\* no object, is handled like a transport fault: it uses up one of the 3
\* attempts and is retried; when every attempt ends this way the call returns
\* "Connection Error"; nothing is raised to the loop.
C10_BadBodyIsFault ==
    /\ \A k \in 1..Len(resps) : FaultOrUnusable(resps[k]) => HandledAsFault(k)
    /\ (pc = "returned" /\ resps # <<>> /\ AllOf(resps, FaultOrUnusable))
          => (units = ConnectionError /\ Len(resps) = 3)
    /\ resps # <<>> => (pc \in {"lookup", "returned"} /\ error = "none")

C10_Witness ==
    /\ pc = "returned"
    /\ resps = <<Resp(200, "invalid", "absent", PyNone, PyNone),
                 Resp(200, "dict", "null", PyNone, PyNone),
                 Resp(200, "invalid", "absent", PyNone, PyNone)>>
    /\ units = ConnectionError
    /\ delays = <<1, 1, 1>>

====
